---- MODULE Spec2Model ----
(***************************************************************************)
(* A model of the provider clients of pkg/video/chatfire_client.go: the    *)
(* Chatfire video client (GenerateVideo, GetTaskStatus) and the OpenAI     *)
(* style chat-completion client (ChatCompletion, GenerateText).  Each      *)
(* action is one call of a client method together with the HTTP round trip *)
(* it makes; the provider's answer is chosen by the environment.           *)
(*                                                                         *)
(* URLs, path templates and task ids are sequences of one-character        *)
(* strings, so that strings.Contains and strings.ReplaceAll are computed   *)
(* character by character.  Other strings are opaque values.               *)
(***************************************************************************)
EXTENDS Integers, Sequences, FiniteSets, TLC

\* c, oc: the ChatfireClient and the OpenAIClient; op, args: the last call
\* and its arguments; req: the HTTP request it built; resp: the provider's
\* answer; ret: the pair it returned; httpCalls: how often it called
\* HTTPClient.Do; repoll: it was a status query right after a status query
\* for the same task id returned a terminal result.
VARIABLES c, oc, op, args, req, resp, ret, httpCalls, repoll, task, now,
          inflight

vars == <<c, oc, op, args, req, resp, ret, httpCalls, repoll, task, now,
          inflight>>

(***************************************************************************)
(* Strings                                                                 *)
(***************************************************************************)

\* A byte that net/url rejects ("invalid control character in URL").
CtrlChar == "<0x7f>"

TaskIdPlaceholder == <<"{", "t", "a", "s", "k", "I", "d", "}">>

TaskUnderscoreIdPlaceholder == <<"{", "t", "a", "s", "k", "_", "i", "d", "}">>

\* sub occurs in s starting at index i
HasPrefixAt(s, sub, i) ==
    /\ i + Len(sub) - 1 <= Len(s)
    /\ SubSeq(s, i, i + Len(sub) - 1) = sub

\* strings.Contains(s, sub)
Contains(s, sub) == \E i \in 1..(Len(s) + 1) : HasPrefixAt(s, sub, i)

RECURSIVE ReplaceFrom(_, _, _, _)
ReplaceFrom(s, old, new, i) ==
    IF i > Len(s) THEN <<>>
    ELSE IF HasPrefixAt(s, old, i)
         THEN new \o ReplaceFrom(s, old, new, i + Len(old))
         ELSE <<s[i]>> \o ReplaceFrom(s, old, new, i + 1)

\* strings.ReplaceAll(s, old, new) for a non-empty old: the non-overlapping
\* occurrences of old, found left to right, are replaced by new.
ReplaceAll(s, old, new) == ReplaceFrom(s, old, new, 1)

\* url.Parse, as far as http.NewRequest depends on it here
URLParses(u) == \A i \in 1..Len(u) : u[i] # CtrlChar

(***************************************************************************)
(* Values the calls are made with                                          *)
(***************************************************************************)

BaseURLs == { <<"h", ":", "/", "/", "x">> }

Slash == <<"/">>

\* the configured query endpoints ("" selects the constructor's default)
QueryTemplates ==
    { <<>>,
      <<"/", "v", "1", "/", "t", "a", "s", "k", "/">> \o TaskIdPlaceholder,
      <<"/", "t", "r", "a", "i", "l", "i", "n", "g">>,
      <<"/", "q", "/">> \o TaskUnderscoreIdPlaceholder,
      Slash \o TaskUnderscoreIdPlaceholder \o Slash \o TaskIdPlaceholder
          \o Slash \o TaskIdPlaceholder,
      <<"/", "{", "t", "a", "s", "k", "I", "d">> }

TaskIDs ==
    { <<"a", "b", "c", "1", "2", "3">>,
      <<"t", "1">>,
      <<>>,
      <<"t", CtrlChar>> }

APIKey == "sk-key"

DefaultModel == "default-model"

ImageURL == "https://x/img.png"

Prompt == "a cat"

VideoURL == "https://x/vid.mp4"

\* status strings a provider may send (the empty string: no status at all)
ProviderStatuses ==
    { "", "queued", "running", "succeeded", "completed", "failed", "processing" }

(***************************************************************************)
(* The provider's side of one HTTP round trip                              *)
(***************************************************************************)

StatusOK == 200

StatusCreated == 201

StatusCodes == { StatusOK, StatusCreated, 204, 500 }

\* A response body: json tells which JSON document it is ("garbage": not
\* JSON at all), len is its length in bytes, the rest are its members.
MkBody(json, len, task_id, status, video_url, error, choices, message) ==
    [ json |-> json, len |-> len, task_id |-> task_id, status |-> status,
      video_url |-> video_url, error |-> error, choices |-> choices,
      message |-> message ]

EmptyBody == MkBody("garbage", 0, <<>>, "", "", "", <<>>, "")

GarbageLens == { 17, 201 }

GarbageBodies ==
    { MkBody("garbage", n, <<>>, "", "", "", <<>>, "") : n \in GarbageLens }

\* {"task_id": .., "status": .., "video_url"?: .., "error"?: ..}
VideoBody(status, video_url, error) ==
    MkBody("video", 64, <<"t", "1">>, status, video_url, error, <<>>, "")

VideoBodies ==
    { VideoBody(s, u, e) :
        s \in ProviderStatuses, u \in { "", VideoURL }, e \in { "", "boom" } }
    \cup { MkBody("video", 2, <<>>, "", "", "", <<>>, "") }

\* {"choices": [{"message": {"content": ..}}, ..], "usage": ..}
ChatBody(choices) == MkBody("chat", 120, <<>>, "", "", "", choices, "")

ChatBodies ==
    { ChatBody(ch) : ch \in { <<>>, <<"hello">>, <<"first", "second">> } }

\* {"error": {"message": .., "type": .., "code": ..}}
OAIErrorBodies == { MkBody("oaierr", 90, <<>>, "", "", "", <<>>, "invalid key") }

\* the bodies tried with every status code
SmallBodies ==
    GarbageBodies \cup ChatBodies \cup OAIErrorBodies
    \cup { VideoBody("queued", "", ""), VideoBody("succeeded", VideoURL, ""),
           VideoBody("running", "", "boom") }

\* net = "senderr": HTTPClient.Do fails; "readerr": io.ReadAll fails;
\* "ok": a response with a status code and a body arrives.
MkEnv(net, code, body) == [ net |-> net, code |-> code, body |-> body ]

NoResp == MkEnv("none", 0, EmptyBody)

Envs ==
    { MkEnv("senderr", 0, EmptyBody), MkEnv("readerr", StatusOK, EmptyBody) }
    \cup { MkEnv("ok", code, body) : code \in StatusCodes, body \in SmallBodies }
    \cup { MkEnv("ok", code, body) : code \in { StatusOK, 500 }, body \in VideoBodies }

(***************************************************************************)
(* Results and errors                                                      *)
(***************************************************************************)

NilResult == [ nil |-> TRUE ]

NilError == [ nil |-> TRUE ]

\* An error value: msg is the fixed part of its text; hasStatus/status the
\* "%d" status code when the text has one; bodyLen the number of bytes of the
\* response body copied into the text; detail any other text copied in.
MkError(msg, hasStatus, status, bodyLen, detail) ==
    [ nil |-> FALSE, msg |-> msg, hasStatus |-> hasStatus, status |-> status,
      bodyLen |-> bodyLen, detail |-> detail ]

Wrap(msg) == MkError(msg, FALSE, 0, 0, "")

NoReq == [ method |-> "none" ]

\* MkReq that sets the Authorization header on POST requests only
MkReq_AuthOnPostOnly(method, url, contentType, key, body) ==
    [ method |-> method, url |-> url, contentType |-> contentType,
      auth |-> IF method = "POST" THEN <<"Bearer ", key>> ELSE <<>>,
      body |-> body ]

MkReq(method, url, contentType, key, body) ==
    [ method |-> method, url |-> url, contentType |-> contentType,
      auth |-> <<"Bearer ", key>>, body |-> body ]

\* what a call hands back: the returned pair, the request it built (NoReq
\* if none) and the number of times it called HTTPClient.Do
MkRet(result, err, request, calls) ==
    [ result |-> result, err |-> err, req |-> request, calls |-> calls ]

(***************************************************************************)
(* encoding/json                                                           *)
(***************************************************************************)

\* json.Unmarshal(body, &ChatfireResponse{}) and (body, &ChatfireTaskResponse{})
\* succeed on any JSON object whose task_id, status, video_url and error
\* members, where present, are strings; unknown members are ignored.
UnmarshalsAsChatfire(body) == body.json \in { "video", "chat" }

\* json.Unmarshal(body, &ErrorResponse{}): the error member, where present,
\* has to be an object.
UnmarshalsAsErrorResponse(body) ==
    \/ body.json \in { "chat", "oaierr" }
    \/ body.json = "video" /\ body.error = ""

\* json.Unmarshal(body, &ChatCompletionResponse{})
UnmarshalsAsChatCompletion(body) == body.json \in { "video", "chat", "oaierr" }

(***************************************************************************)
(* ChatfireClient                                                          *)
(***************************************************************************)

DefaultVideoEndpoint ==
    <<"/", "v", "i", "d", "e", "o", "/", "g", "e", "n", "e", "r", "a", "t",
      "i", "o", "n", "s">>

DefaultQueryEndpoint ==
    <<"/", "v", "1", "/", "v", "i", "d", "e", "o", "/", "t", "a", "s", "k",
      "/">> \o TaskIdPlaceholder

NewChatfireClient(baseURL, apiKey, model, endpoint, queryEndpoint) ==
    [ BaseURL |-> baseURL,
      APIKey |-> apiKey,
      Model |-> model,
      Endpoint |-> IF endpoint = <<>> THEN DefaultVideoEndpoint ELSE endpoint,
      QueryEndpoint |-> IF queryEndpoint = <<>> THEN DefaultQueryEndpoint
                        ELSE queryEndpoint ]

DefaultDuration == 5

DefaultAspectRatio == "16:9"

\* a VideoOption sets one field of the VideoOptions
VideoOptionSet ==
    { [ field |-> "Duration", value |-> 10 ],
      [ field |-> "AspectRatio", value |-> "9:16" ],
      [ field |-> "Model", value |-> "other-model" ],
      [ field |-> "Model", value |-> "" ] }

RECURSIVE ApplyOptions(_, _)
ApplyOptions(options, opts) ==
    IF opts = <<>> THEN options
    ELSE ApplyOptions([ options EXCEPT ![Head(opts).field] = Head(opts).value ],
                      Tail(opts))

\* StatusCompleted with the "completed" spelling forgotten
StatusCompleted_OnlySucceeded(status) == status = "succeeded"

\* Completed: result.Status == "completed" || result.Status == "succeeded"
StatusCompleted(status) == status = "completed" \/ status = "succeeded"

\* the submit status codes GenerateVideo accepts
SubmitAccepted(code) == code = StatusOK \/ code = StatusCreated

MkVideoResult(taskID, status, completed, duration, videoURL, error) ==
    [ nil |-> FALSE, TaskID |-> taskID, Status |-> status,
      Completed |-> completed, Duration |-> duration, VideoURL |-> videoURL,
      Error |-> error ]

\* SubmitResult without the check of the error member
SubmitResult_IgnoreError(body, duration, request) ==
    IF ~UnmarshalsAsChatfire(body)
    THEN MkRet(NilResult, Wrap("parse response"), request, 1)
    ELSE MkRet(MkVideoResult(body.task_id, body.status,
                             StatusCompleted(body.status), duration, "", ""),
               NilError, request, 1)

\* SubmitResult that hands back the parsed result along with the provider's
\* error
SubmitResult_ResultWithError(body, duration, request) ==
    IF ~UnmarshalsAsChatfire(body)
    THEN MkRet(NilResult, Wrap("parse response"), request, 1)
    ELSE MkRet(MkVideoResult(body.task_id, body.status,
                             StatusCompleted(body.status), duration, "", ""),
               IF body.error # ""
               THEN MkError("chatfire error", FALSE, 0, 0, body.error)
               ELSE NilError,
               request, 1)

\* what GenerateVideo makes of the body of an accepted submit response
SubmitResult(body, duration, request) ==
    IF ~UnmarshalsAsChatfire(body)
    THEN MkRet(NilResult, Wrap("parse response"), request, 1)
    ELSE IF body.error # ""
    THEN MkRet(NilResult, MkError("chatfire error", FALSE, 0, 0, body.error),
               request, 1)
    ELSE MkRet(MkVideoResult(body.task_id, body.status,
                             StatusCompleted(body.status), duration, "", ""),
               NilError, request, 1)

\* GenerateVideo that takes the model from the options even when they name none
GenerateVideo_ModelFromOptions(cl, imageURL, prompt, opts, env) ==
    LET options == ApplyOptions([ Duration |-> DefaultDuration,
                                  AspectRatio |-> DefaultAspectRatio,
                                  Model |-> "" ], opts)
        reqBody == [ Model |-> options.Model, Prompt |-> prompt,
                     ImageURL |-> imageURL, Duration |-> options.Duration,
                     Size |-> options.AspectRatio ]
        endpoint == cl.BaseURL \o cl.Endpoint
        request == MkReq("POST", endpoint, "application/json", cl.APIKey, reqBody)
    IN  IF ~URLParses(endpoint)
        THEN MkRet(NilResult, Wrap("create request"), NoReq, 0)
        ELSE IF env.net = "senderr"
        THEN MkRet(NilResult, Wrap("send request"), request, 1)
        ELSE IF env.net = "readerr"
        THEN MkRet(NilResult, Wrap("read response"), request, 1)
        ELSE IF ~SubmitAccepted(env.code)
        THEN MkRet(NilResult,
                   MkError("API error", TRUE, env.code, env.body.len, ""),
                   request, 1)
        ELSE SubmitResult(env.body, options.Duration, request)

GenerateVideo(cl, imageURL, prompt, opts, env) ==
    LET options == ApplyOptions([ Duration |-> DefaultDuration,
                                  AspectRatio |-> DefaultAspectRatio,
                                  Model |-> "" ], opts)
        model == IF options.Model # "" THEN options.Model ELSE cl.Model
        reqBody == [ Model |-> model, Prompt |-> prompt, ImageURL |-> imageURL,
                     Duration |-> options.Duration,
                     Size |-> options.AspectRatio ]
        endpoint == cl.BaseURL \o cl.Endpoint
        request == MkReq("POST", endpoint, "application/json", cl.APIKey, reqBody)
    IN  IF ~URLParses(endpoint)
        THEN MkRet(NilResult, Wrap("create request"), NoReq, 0)
        ELSE IF env.net = "senderr"
        THEN MkRet(NilResult, Wrap("send request"), request, 1)
        ELSE IF env.net = "readerr"
        THEN MkRet(NilResult, Wrap("read response"), request, 1)
        ELSE IF ~SubmitAccepted(env.code)
        THEN MkRet(NilResult,
                   MkError("API error", TRUE, env.code, env.body.len, ""),
                   request, 1)
        ELSE SubmitResult(env.body, options.Duration, request)

\* QueryPath with the two placeholders tried in the other order
QueryPath_SnakeFirst(queryEndpoint, taskID) ==
    IF Contains(queryEndpoint, TaskUnderscoreIdPlaceholder)
    THEN ReplaceAll(queryEndpoint, TaskUnderscoreIdPlaceholder, taskID)
    ELSE IF Contains(queryEndpoint, TaskIdPlaceholder)
    THEN ReplaceAll(queryEndpoint, TaskIdPlaceholder, taskID)
    ELSE queryEndpoint \o <<"/">> \o taskID

\* the path GetTaskStatus requests for a task id
QueryPath(queryEndpoint, taskID) ==
    IF Contains(queryEndpoint, TaskIdPlaceholder)
    THEN ReplaceAll(queryEndpoint, TaskIdPlaceholder, taskID)
    ELSE IF Contains(queryEndpoint, TaskUnderscoreIdPlaceholder)
    THEN ReplaceAll(queryEndpoint, TaskUnderscoreIdPlaceholder, taskID)
    ELSE queryEndpoint \o <<"/">> \o taskID

\* TaskResult that does not copy the video URL
TaskResult_DropURL(body) ==
    LET videoResult == MkVideoResult(body.task_id, body.status,
                                     StatusCompleted(body.status), 0, "", "")
        withError == IF body.error # ""
                     THEN [ videoResult EXCEPT !.Error = body.error ]
                     ELSE videoResult
    IN  IF body.video_url # ""
        THEN [ withError EXCEPT !.Completed = TRUE ]
        ELSE withError

\* TaskResult that copies the URL but leaves Completed as the status had it
TaskResult_NoPromote(body) ==
    LET videoResult == MkVideoResult(body.task_id, body.status,
                                     StatusCompleted(body.status), 0, "", "")
        withError == IF body.error # ""
                     THEN [ videoResult EXCEPT !.Error = body.error ]
                     ELSE videoResult
    IN  IF body.video_url # ""
        THEN [ withError EXCEPT !.VideoURL = body.video_url ]
        ELSE withError

\* TaskResult that does not copy the provider's error string
TaskResult_DropError(body) ==
    LET videoResult == MkVideoResult(body.task_id, body.status,
                                     StatusCompleted(body.status), 0, "", "")
    IN  IF body.video_url # ""
        THEN [ videoResult EXCEPT !.VideoURL = body.video_url,
                                  !.Completed = TRUE ]
        ELSE videoResult

\* the VideoResult GetTaskStatus builds from a parsed status response
TaskResult(body) ==
    LET videoResult == MkVideoResult(body.task_id, body.status,
                                     StatusCompleted(body.status), 0, "", "")
        withError == IF body.error # ""
                     THEN [ videoResult EXCEPT !.Error = body.error ]
                     ELSE videoResult
    IN  IF body.video_url # ""
        THEN [ withError EXCEPT !.VideoURL = body.video_url,
                                !.Completed = TRUE ]
        ELSE withError

\* GetTaskStatus that answers an empty task id without asking the provider
GetTaskStatus_SkipsEmptyID(cl, taskID, env) ==
    LET endpoint == cl.BaseURL \o QueryPath(cl.QueryEndpoint, taskID)
        request == MkReq("GET", endpoint, "", cl.APIKey, <<>>)
    IN  IF ~URLParses(endpoint)
        THEN MkRet(NilResult, Wrap("create request"), NoReq, 0)
        ELSE IF taskID = <<>>
        THEN MkRet(MkVideoResult(<<>>, "succeeded", TRUE, 0, VideoURL, ""),
                   NilError, NoReq, 0)
        ELSE IF env.net = "senderr"
        THEN MkRet(NilResult, Wrap("send request"), request, 1)
        ELSE IF env.net = "readerr"
        THEN MkRet(NilResult, Wrap("read response"), request, 1)
        ELSE IF ~UnmarshalsAsChatfire(env.body)
        THEN MkRet(NilResult, Wrap("parse response"), request, 1)
        ELSE MkRet(TaskResult(env.body), NilError, request, 1)

\* GetTaskStatus that sends the request a second time when sending fails
GetTaskStatus_RetriesSend(cl, taskID, env) ==
    LET endpoint == cl.BaseURL \o QueryPath(cl.QueryEndpoint, taskID)
        request == MkReq("GET", endpoint, "", cl.APIKey, <<>>)
    IN  IF ~URLParses(endpoint)
        THEN MkRet(NilResult, Wrap("create request"), NoReq, 0)
        ELSE IF env.net = "senderr"
        THEN MkRet(NilResult, Wrap("send request"), request, 2)
        ELSE IF env.net = "readerr"
        THEN MkRet(NilResult, Wrap("read response"), request, 1)
        ELSE IF ~UnmarshalsAsChatfire(env.body)
        THEN MkRet(NilResult, Wrap("parse response"), request, 1)
        ELSE MkRet(TaskResult(env.body), NilError, request, 1)

GetTaskStatus(cl, taskID, env) ==
    LET endpoint == cl.BaseURL \o QueryPath(cl.QueryEndpoint, taskID)
        request == MkReq("GET", endpoint, "", cl.APIKey, <<>>)
    IN  IF ~URLParses(endpoint)
        THEN MkRet(NilResult, Wrap("create request"), NoReq, 0)
        ELSE IF env.net = "senderr"
        THEN MkRet(NilResult, Wrap("send request"), request, 1)
        ELSE IF env.net = "readerr"
        THEN MkRet(NilResult, Wrap("read response"), request, 1)
        ELSE IF ~UnmarshalsAsChatfire(env.body)
        THEN MkRet(NilResult, Wrap("parse response"), request, 1)
        ELSE MkRet(TaskResult(env.body), NilError, request, 1)

(***************************************************************************)
(* OpenAIClient                                                            *)
(***************************************************************************)

DefaultChatEndpoint ==
    <<"/", "v", "1", "/", "c", "h", "a", "t", "/", "c", "o", "m", "p", "l",
      "e", "t", "i", "o", "n", "s">>

NewOpenAIClient(baseURL, apiKey, model, endpoint) ==
    [ BaseURL |-> baseURL,
      APIKey |-> apiKey,
      Model |-> model,
      Endpoint |-> IF endpoint = <<>> THEN DefaultChatEndpoint ELSE endpoint ]

\* a float64, in tenths; nan: the value is NaN
Float(tenths) == [ nan |-> FALSE, tenths |-> tenths ]

NaN == [ nan |-> TRUE, tenths |-> 0 ]

WithTemperature(temp) == [ field |-> "Temperature", value |-> temp ]

WithMaxTokens(tokens) == [ field |-> "MaxTokens", value |-> tokens ]

WithTopP(topP) == [ field |-> "TopP", value |-> topP ]

\* the options a chat call is made with
ChatOptionSet ==
    { WithTemperature(NaN), WithMaxTokens(10), WithMaxTokens(2000),
      WithTopP(Float(9)) }

ChatMessage(role, content) == [ Role |-> role, Content |-> content ]

\* the body preview copied into the error of an unparsable response
ErrorPreviewLimit == 200

MkChatResponse(choices) == [ nil |-> FALSE, Choices |-> choices ]

sendChatRequest(cl, request, env) ==
    LET url == cl.BaseURL \o cl.Endpoint
        httpReq == MkReq("POST", url, "application/json", cl.APIKey, request)
    IN  IF request.Temperature.nan \/ request.TopP.nan
        THEN MkRet(NilResult, Wrap("failed to marshal request"), NoReq, 0)
        ELSE IF ~URLParses(url)
        THEN MkRet(NilResult, Wrap("failed to create request"), NoReq, 0)
        ELSE IF env.net = "senderr"
        THEN MkRet(NilResult, Wrap("failed to send request"), httpReq, 1)
        ELSE IF env.net = "readerr"
        THEN MkRet(NilResult, Wrap("failed to read response"), httpReq, 1)
        ELSE IF env.code # StatusOK
        THEN IF ~UnmarshalsAsErrorResponse(env.body)
             THEN MkRet(NilResult,
                        MkError("API error", TRUE, env.code, env.body.len, ""),
                        httpReq, 1)
             ELSE MkRet(NilResult,
                        MkError("API error", FALSE, 0, 0, env.body.message),
                        httpReq, 1)
        ELSE IF ~UnmarshalsAsChatCompletion(env.body)
        THEN MkRet(NilResult,
                   MkError("failed to unmarshal response", FALSE, 0,
                           IF env.body.len > ErrorPreviewLimit
                           THEN ErrorPreviewLimit ELSE env.body.len, ""),
                   httpReq, 1)
        ELSE MkRet(MkChatResponse(env.body.choices), NilError, httpReq, 1)

ChatCompletion(cl, messages, options, env) ==
    sendChatRequest(cl,
                    ApplyOptions([ Model |-> cl.Model, Messages |-> messages,
                                   Temperature |-> Float(0), MaxTokens |-> 0,
                                   TopP |-> Float(0), Stream |-> FALSE ],
                                 options),
                    env)

\* GenerateText returns (string, error): the result is never nil
MkText(text) == [ nil |-> FALSE, text |-> text ]

\* GenerateText that returns the content of the last choice
GenerateText_LastChoice(cl, prompt, systemPrompt, options, env) ==
    LET messages == (IF systemPrompt # ""
                     THEN <<ChatMessage("system", systemPrompt)>> ELSE <<>>)
                    \o <<ChatMessage("user", prompt)>>
        r == ChatCompletion(cl, messages, options, env)
    IN  IF ~r.err.nil
        THEN MkRet(MkText(""), r.err, r.req, r.calls)
        ELSE IF Len(r.result.Choices) = 0
        THEN MkRet(MkText(""), Wrap("no response from API"), r.req, r.calls)
        ELSE MkRet(MkText(r.result.Choices[Len(r.result.Choices)]), NilError,
                   r.req, r.calls)

\* GenerateText that appends the system message after the user message
GenerateText_SystemLast(cl, prompt, systemPrompt, options, env) ==
    LET messages == <<ChatMessage("user", prompt)>>
                    \o (IF systemPrompt # ""
                        THEN <<ChatMessage("system", systemPrompt)>> ELSE <<>>)
        r == ChatCompletion(cl, messages, options, env)
    IN  IF ~r.err.nil
        THEN MkRet(MkText(""), r.err, r.req, r.calls)
        ELSE IF Len(r.result.Choices) = 0
        THEN MkRet(MkText(""), Wrap("no response from API"), r.req, r.calls)
        ELSE MkRet(MkText(r.result.Choices[1]), NilError, r.req, r.calls)

GenerateText(cl, prompt, systemPrompt, options, env) ==
    LET messages == (IF systemPrompt # ""
                     THEN <<ChatMessage("system", systemPrompt)>> ELSE <<>>)
                    \o <<ChatMessage("user", prompt)>>
        r == ChatCompletion(cl, messages, options, env)
    IN  IF ~r.err.nil
        THEN MkRet(MkText(""), r.err, r.req, r.calls)
        ELSE IF Len(r.result.Choices) = 0
        THEN MkRet(MkText(""), Wrap("no response from API"), r.req, r.calls)
        ELSE MkRet(MkText(r.result.Choices[1]), NilError, r.req, r.calls)

(***************************************************************************)
(* The calls                                                               *)
(***************************************************************************)

\* the most options one call is given
MaxOpts == 2

SeqsUpTo(S, n) == UNION { [ 1..k -> S ] : k \in 0..n }

\* the answer every list of options is tried against
VideoCoreEnv == MkEnv("ok", StatusOK, VideoBody("queued", "", ""))

ChatCoreEnv == MkEnv("ok", StatusOK, ChatBody(<<"hello">>))

\* options and provider answer of one call
OptionsAndEnv(optionSet, coreEnv) ==
    ({ <<>> } \X Envs) \cup (SeqsUpTo(optionSet, MaxOpts) \X { coreEnv })

\* task id and provider answer of one status query
TaskAndEnv ==
    ({ <<"a", "b", "c", "1", "2", "3">> } \X Envs)
    \cup (TaskIDs \X { VideoCoreEnv, MkEnv("ok", StatusOK, VideoBody("succeeded", VideoURL, "")) })

BadEndpoint == <<"/", CtrlChar>>

CustomEndpoint == <<"/", "g">>

\* ---- the settings form (AIConfig.vue) ----

\* the base URL the form shows when the field is empty
ExampleBaseURL ==
    <<"h", "t", "t", "p", "s", ":", "/", "/", "a", "p", "i", ".", "e", "x",
      "a", "m", "p", "l", "e", ".", "c", "o", "m">>

GeminiContentEndpoint ==
    <<"/", "v", "1", "b", "e", "t", "a", "/", "m", "o", "d", "e", "l", "s",
      "/", "{", "m", "o", "d", "e", "l", "}", ":", "g", "e", "n", "e", "r",
      "a", "t", "e", "C", "o", "n", "t", "e", "n", "t">>

\* the "full call path" shown under the Base URL field
fullEndpointExample(form) ==
    LET baseUrl == IF form.base_url # <<>> THEN form.base_url
                   ELSE ExampleBaseURL
        provider == form.provider
        serviceType == form.service_type
        endpoint ==
            IF serviceType = "text"
            THEN IF provider = "gemini" \/ provider = "google"
                 THEN GeminiContentEndpoint
                 ELSE <<"/", "c", "h", "a", "t", "/", "c", "o", "m", "p",
                        "l", "e", "t", "i", "o", "n", "s">>
            ELSE IF serviceType = "image"
            THEN IF provider = "gemini" \/ provider = "google"
                 THEN GeminiContentEndpoint
                 ELSE <<"/", "i", "m", "a", "g", "e", "s", "/", "g", "e",
                        "n", "e", "r", "a", "t", "i", "o", "n", "s">>
            ELSE IF serviceType = "video"
            THEN IF provider = "chatfire"
                 THEN <<"/", "v", "i", "d", "e", "o", "/", "g", "e", "n",
                        "e", "r", "a", "t", "i", "o", "n", "s">>
                 ELSE IF provider = "doubao" \/ provider = "volcengine"
                         \/ provider = "volces"
                 THEN <<"/", "c", "o", "n", "t", "e", "n", "t", "s", "/",
                        "g", "e", "n", "e", "r", "a", "t", "i", "o", "n",
                        "s", "/", "t", "a", "s", "k", "s">>
                 ELSE IF provider = "openai"
                 THEN <<"/", "v", "i", "d", "e", "o", "s">>
                 ELSE <<"/", "v", "i", "d", "e", "o", "/", "g", "e", "n",
                        "e", "r", "a", "t", "i", "o", "n", "s">>
            ELSE <<>>
    IN  baseUrl \o endpoint

\* constructor arguments of the video client: <<endpoint, queryEndpoint>>
VideoConfigs ==
    { <<<<>>, q>> : q \in QueryTemplates }
    \cup { <<e, <<>>>> : e \in { CustomEndpoint, BadEndpoint } }

\* constructor argument of the chat client: endpoint
ChatConfigs == { <<>>, CustomEndpoint, BadEndpoint }

\* constructor arguments when both clients are built: the endpoint is shared
AllConfigs ==
    { <<e, <<>>>> : e \in ChatConfigs }
    \cup { <<<<>>, <<"/", "t", "r", "a", "i", "l", "i", "n", "g">>>> }

\* the poller tracks no task
NoTask ==
    [ state |-> "none", id |-> <<>>, result |-> "", error |-> "",
      failure |-> "none", deadline |-> 0 ]

\* the goroutines that share the clients
Callers == { 1, 2 }

NoCall == [ name |-> "none" ]

Idle ==
    /\ task = NoTask
    /\ now = 0
    /\ inflight = [ k \in Callers |-> NoCall ]
    /\ op = "none"
    /\ args = [ none |-> TRUE ]
    /\ req = NoReq
    /\ resp = NoResp
    /\ ret = [ result |-> NilResult, err |-> NilError ]
    /\ httpCalls = 0
    /\ repoll = FALSE

\* a result that ends a task: reported completed, or failed
Terminal(result) ==
    /\ ~result.nil
    /\ result.Completed \/ result.Status = "failed" \/ result.Error # ""

\* the effect of a call that handed back r
Returned(name, a, r, env) ==
    /\ op' = name
    /\ args' = a
    /\ req' = r.req
    /\ resp' = IF r.calls = 0 THEN NoResp ELSE env
    /\ ret' = [ result |-> r.result, err |-> r.err ]
    /\ httpCalls' = r.calls
    /\ repoll' = ( /\ name = "GetTaskStatus"
                   /\ op = "GetTaskStatus"
                   /\ Terminal(ret.result)
                   /\ a.taskID = args.taskID )
    /\ UNCHANGED <<c, oc>>

CallGenerateVideo ==
    \E oe \in OptionsAndEnv(VideoOptionSet, VideoCoreEnv) :
        Returned("GenerateVideo",
                 [ imageURL |-> ImageURL, prompt |-> Prompt, opts |-> oe[1] ],
                 GenerateVideo(c, ImageURL, Prompt, oe[1], oe[2]), oe[2])
        /\ UNCHANGED <<task, now, inflight>>

CallGetTaskStatus ==
    \E te \in TaskAndEnv :
        Returned("GetTaskStatus", [ taskID |-> te[1] ],
                 GetTaskStatus(c, te[1], te[2]), te[2])
        /\ UNCHANGED <<task, now, inflight>>

UserHello == <<ChatMessage("user", "Hello")>>

CallChatCompletion ==
    \E oe \in OptionsAndEnv(ChatOptionSet, ChatCoreEnv) :
        Returned("ChatCompletion",
                 [ messages |-> UserHello, options |-> oe[1] ],
                 ChatCompletion(oc, UserHello, oe[1], oe[2]), oe[2])
        /\ UNCHANGED <<task, now, inflight>>

CallGenerateText ==
    \E systemPrompt \in { "", "be brief" },
       oe \in OptionsAndEnv(ChatOptionSet, ChatCoreEnv) :
        /\ systemPrompt = "" => oe[1] = <<>>
        /\ Returned("GenerateText",
                    [ prompt |-> Prompt, systemPrompt |-> systemPrompt,
                      options |-> oe[1] ],
                    GenerateText(oc, Prompt, systemPrompt, oe[1], oe[2]), oe[2])
        /\ UNCHANGED <<task, now, inflight>>

(***************************************************************************)
(* Task Poller / Lifecycle Manager                                         *)
(***************************************************************************)

\* the time a task may stay non-terminal, counted from its submission
Deadline == 2

MaxClock == Deadline + 1

NonTerminalStates == { "queued", "running" }

TerminalStates == { "succeeded", "failed", "timed_out" }

\* the task registered for an accepted submission
Registered(result, submittedAt) ==
    [ state |-> "queued", id |-> result.TaskID, result |-> "", error |-> "",
      failure |-> "none", deadline |-> submittedAt + Deadline ]

\* TimedOutTask that closes the task as failed
TimedOutTask_AsFailed(t) ==
    [ t EXCEPT !.state = "failed", !.failure = "ProviderError" ]

\* the task closed at its deadline
TimedOutTask(t) ==
    [ t EXCEPT !.state = "timed_out", !.failure = "TimedOut" ]

\* the lifecycle transition for what one poll returned
Advance(t, r) ==
    IF ~r.err.nil THEN t
    ELSE IF r.result.Status = "failed" \/ r.result.Error # ""
    THEN [ t EXCEPT !.state = "failed", !.failure = "ProviderError",
                    !.error = r.result.Error ]
    ELSE IF r.result.VideoURL # ""
    THEN [ t EXCEPT !.state = "succeeded", !.result = r.result.VideoURL ]
    ELSE IF r.result.Status = "running"
    THEN [ t EXCEPT !.state = "running" ]
    ELSE t

\* the answers the provider gives to the poller's submission
SubmitEnvs ==
    { VideoCoreEnv,
      MkEnv("ok", StatusOK, VideoBody("queued", "", "boom")),
      MkEnv("ok", 500, MkBody("garbage", 17, <<>>, "", "", "", <<>>, "")),
      MkEnv("senderr", 0, EmptyBody) }

\* the answers the provider gives to a poll
PollEnvs ==
    { MkEnv("ok", StatusOK, VideoBody(st, u, e)) :
        st \in { "", "queued", "running", "succeeded", "failed" },
        u \in { "", VideoURL }, e \in { "", "boom" } }
    \cup { MkEnv("senderr", 0, EmptyBody),
           MkEnv("ok", 500, MkBody("garbage", 17, <<>>, "", "", "", <<>>, "")) }

PollerSubmit ==
    /\ task.state = "none"
    /\ \E env \in SubmitEnvs :
          LET r == GenerateVideo(c, ImageURL, Prompt, <<>>, env)
          IN  /\ Returned("GenerateVideo",
                          [ imageURL |-> ImageURL, prompt |-> Prompt,
                            opts |-> <<>> ], r, env)
              /\ task' = IF r.err.nil THEN Registered(r.result, now) ELSE task
    /\ UNCHANGED <<now, inflight>>

PollerPoll ==
    /\ task.state \in NonTerminalStates
    /\ now < task.deadline
    /\ \E env \in PollEnvs :
          LET r == GetTaskStatus(c, task.id, env)
          IN  /\ Returned("GetTaskStatus", [ taskID |-> task.id ], r, env)
              /\ task' = Advance(task, r)
    /\ UNCHANGED <<now, inflight>>

PollerTimeOut ==
    /\ task.state \in NonTerminalStates
    /\ now >= task.deadline
    /\ task' = TimedOutTask(task)
    /\ UNCHANGED <<c, oc, op, args, req, resp, ret, httpCalls, repoll, now,
                   inflight>>

Tick ==
    /\ now < MaxClock
    /\ now' = now + 1
    /\ UNCHANGED <<c, oc, op, args, req, resp, ret, httpCalls, repoll, task,
                   inflight>>

InitPoller ==
    /\ \E baseURL \in BaseURLs :
          /\ c = NewChatfireClient(baseURL, APIKey, DefaultModel, <<>>, <<>>)
          /\ oc = NewOpenAIClient(baseURL, APIKey, DefaultModel, <<>>)
    /\ Idle

NextPoller ==
    \/ PollerSubmit
    \/ PollerPoll
    \/ PollerTimeOut
    \/ Tick

SpecPoller == InitPoller /\ [][NextPoller]_vars /\ WF_vars(PollerTimeOut)

(***************************************************************************)
(* Concurrent callers of one pair of clients                               *)
(***************************************************************************)

\* the calls the goroutines make
ConcurrentCalls ==
    { [ name |-> "GenerateVideo", args |-> [ opts |-> o ] ] :
        o \in { <<>>, <<[ field |-> "Model", value |-> "other-model" ]>> } }
    \cup { [ name |-> "GetTaskStatus", args |-> [ taskID |-> t ] ] :
             t \in { <<"t", "1">>, <<"a", "b", "c", "1", "2", "3">> } }
    \cup { [ name |-> "ChatCompletion", args |-> [ options |-> o ] ] :
             o \in { <<>>, <<WithMaxTokens(10)>> } }
    \cup { [ name |-> "GenerateText", args |-> [ options |-> o ] ] :
             o \in { <<>>, <<WithMaxTokens(2000)>> } }

\* the answers the provider gives to a concurrent call
ConcurrentEnvs ==
    { VideoCoreEnv, ChatCoreEnv, MkEnv("senderr", 0, EmptyBody) }

\* the method of call, run on the receivers cl and ocl
Run(cl, ocl, call, env) ==
    IF call.name = "GenerateVideo"
    THEN GenerateVideo(cl, ImageURL, Prompt, call.args.opts, env)
    ELSE IF call.name = "GetTaskStatus"
    THEN GetTaskStatus(cl, call.args.taskID, env)
    ELSE IF call.name = "ChatCompletion"
    THEN ChatCompletion(ocl, UserHello, call.args.options, env)
    ELSE GenerateText(ocl, Prompt, "", call.args.options, env)

\* ChatfireClientAfter that stores a model override in the client
ChatfireClientAfter_KeepsModel(cl, call) ==
    IF /\ call.name = "GenerateVideo"
       /\ call.args.opts # <<>>
    THEN [ cl EXCEPT !.Model = call.args.opts[1].value ]
    ELSE cl

\* the receiver *ChatfireClient after a method ran: no field is assigned
ChatfireClientAfter(cl, call) == cl

\* the receiver *OpenAIClient after a method ran: no field is assigned
OpenAIClientAfter(ocl, call) == ocl

\* goroutine k enters a method and builds its request
StartCall(k) ==
    /\ inflight[k] = NoCall
    /\ \E call \in ConcurrentCalls :
          /\ inflight' =
                [ inflight EXCEPT ![k] =
                    [ name |-> call.name, args |-> call.args,
                      req |-> Run(c, oc, call, VideoCoreEnv).req ] ]
          /\ c' = ChatfireClientAfter(c, call)
          /\ oc' = OpenAIClientAfter(oc, call)
    /\ UNCHANGED <<op, args, req, resp, ret, httpCalls, repoll, task, now>>

\* the provider answers goroutine k's request and its method returns
FinishCall(k) ==
    /\ inflight[k] # NoCall
    /\ \E env \in ConcurrentEnvs :
          LET call == [ name |-> inflight[k].name, args |-> inflight[k].args ]
              r == Run(c, oc, call, env)
          IN  Returned(call.name, call.args,
                       [ r EXCEPT !.req = inflight[k].req ], env)
    /\ inflight' = [ inflight EXCEPT ![k] = NoCall ]
    /\ UNCHANGED <<task, now>>

\* the clients the goroutines share
SharedChatfireClient ==
    NewChatfireClient(<<"h", ":", "/", "/", "x">>, APIKey, DefaultModel,
                      <<>>, <<>>)

SharedOpenAIClient ==
    NewOpenAIClient(<<"h", ":", "/", "/", "x">>, APIKey, DefaultModel, <<>>)

InitConcurrent ==
    /\ c = SharedChatfireClient
    /\ oc = SharedOpenAIClient
    /\ Idle

NextConcurrent ==
    \/ \E k \in Callers : StartCall(k)
    \/ \E k \in Callers : FinishCall(k)

SpecConcurrent == InitConcurrent /\ [][NextConcurrent]_vars

(***************************************************************************)
(* The clients called directly, one call after another                     *)
(***************************************************************************)

\* The video client alone.
Init ==
    /\ \E baseURL \in BaseURLs, cfg \in VideoConfigs :
          c = NewChatfireClient(baseURL, APIKey, DefaultModel, cfg[1], cfg[2])
    /\ \E baseURL \in BaseURLs :
          oc = NewOpenAIClient(baseURL, APIKey, DefaultModel, <<>>)
    /\ Idle

Next ==
    \/ CallGenerateVideo
    \/ CallGetTaskStatus

Spec == Init /\ [][Next]_vars

\* The chat-completion client alone.
InitChat ==
    /\ \E baseURL \in BaseURLs :
          c = NewChatfireClient(baseURL, APIKey, DefaultModel, <<>>, <<>>)
    /\ \E baseURL \in BaseURLs, endpoint \in ChatConfigs :
          oc = NewOpenAIClient(baseURL, APIKey, DefaultModel, endpoint)
    /\ Idle

NextChat ==
    \/ CallChatCompletion
    \/ CallGenerateText

SpecChat == InitChat /\ [][NextChat]_vars

\* Both clients, built from one configuration.
InitAll ==
    /\ \E baseURL \in BaseURLs, cfg \in AllConfigs, endpoint \in ChatConfigs :
          /\ cfg[1] = endpoint
          /\ c = NewChatfireClient(baseURL, APIKey, DefaultModel, cfg[1], cfg[2])
          /\ oc = NewOpenAIClient(baseURL, APIKey, DefaultModel, endpoint)
    /\ Idle

NextAll ==
    \/ CallGenerateVideo
    \/ CallGetTaskStatus
    \/ CallChatCompletion
    \/ CallGenerateText

SpecAll == InitAll /\ [][NextAll]_vars

(***************************************************************************)
(* Properties                                                              *)
(***************************************************************************)

VideoOps == { "GenerateVideo", "GetTaskStatus" }

\* the last call got a response whose body it could parse
ParsedVideoResponse == resp.net = "ok" /\ UnmarshalsAsChatfire(resp.body)

Abc123 == <<"a", "b", "c", "1", "2", "3">>

\* the positions at which ph occurs in s
Occurrences(s, ph) == { i \in 1..Len(s) : HasPrefixAt(s, ph, i) }

\* s cut at the occurrences of ph, leftmost first
RECURSIVE Pieces(_, _)
Pieces(s, ph) ==
    IF Occurrences(s, ph) = {} THEN <<s>>
    ELSE LET i == CHOOSE k \in Occurrences(s, ph) :
                      \A j \in Occurrences(s, ph) : k <= j
         IN  <<SubSeq(s, 1, i - 1)>>
             \o Pieces(SubSeq(s, i + Len(ph), Len(s)), ph)

RECURSIVE Join(_, _)
Join(pieces, sep) ==
    IF Len(pieces) = 1 THEN pieces[1]
    ELSE pieces[1] \o sep \o Join(Tail(pieces), sep)

\* the id put in the place of every ph of the template
Substituted(template, ph, id) == Join(Pieces(template, ph), id)

\* the path the template stands for, in the words of the specification
ResolvedPath(template, id) ==
    IF Occurrences(template, TaskIdPlaceholder) # {}
    THEN Substituted(template, TaskIdPlaceholder, id)
    ELSE IF Occurrences(template, TaskUnderscoreIdPlaceholder) # {}
    THEN Substituted(template, TaskUnderscoreIdPlaceholder, id)
    ELSE template \o <<"/">> \o id

V1TaskTemplate ==
    <<"/", "v", "1", "/", "t", "a", "s", "k", "/">> \o TaskIdPlaceholder

TrailingTemplate == <<"/", "t", "r", "a", "i", "l", "i", "n", "g">>

\* C1: the URL GetTaskStatus requests is the base URL followed by the query
\* template with the task id substituted for {taskId} if the template has
\* it, else for {task_id} if it has that, else with "/" and the id appended;
\* /v1/task/{taskId} with abc123 gives /v1/task/abc123 and /trailing gives
\* /trailing/abc123.
C1_PathResolution ==
    (op = "GetTaskStatus" /\ req.method # "none") =>
        /\ req.url = c.BaseURL \o ResolvedPath(c.QueryEndpoint, args.taskID)
        /\ (c.QueryEndpoint = V1TaskTemplate /\ args.taskID = Abc123) =>
              req.url = c.BaseURL
                        \o <<"/", "v", "1", "/", "t", "a", "s", "k", "/",
                             "a", "b", "c", "1", "2", "3">>
        /\ (c.QueryEndpoint = TrailingTemplate /\ args.taskID = Abc123) =>
              req.url = c.BaseURL
                        \o <<"/", "t", "r", "a", "i", "l", "i", "n", "g", "/",
                             "a", "b", "c", "1", "2", "3">>

\* a status query against a template holding both placeholders
C1_Witness ==
    /\ op = "GetTaskStatus"
    /\ req.method # "none"
    /\ args.taskID = Abc123
    /\ Contains(c.QueryEndpoint, TaskIdPlaceholder)
    /\ Contains(c.QueryEndpoint, TaskUnderscoreIdPlaceholder)
    /\ req.url = c.BaseURL
                 \o <<"/">> \o TaskUnderscoreIdPlaceholder
                 \o <<"/", "a", "b", "c", "1", "2", "3",
                      "/", "a", "b", "c", "1", "2", "3">>

\* C2: a status response with a non-empty video_url, whatever its status
\* string and status code, gives a result reported completed that carries
\* exactly that URL.
C2_UrlMeansSucceeded ==
    (op = "GetTaskStatus" /\ ParsedVideoResponse /\ resp.body.video_url # "") =>
        /\ ret.err.nil
        /\ ~ret.result.nil
        /\ ret.result.Completed
        /\ ret.result.VideoURL = resp.body.video_url

\* a response that says "failed" and still carries a URL
C2_Witness ==
    /\ op = "GetTaskStatus"
    /\ ParsedVideoResponse
    /\ resp.body.status = "failed"
    /\ resp.body.video_url = VideoURL
    /\ ~ret.result.nil
    /\ ret.result.Completed
    /\ ret.result.VideoURL = VideoURL

NormalizedStatuses == { "queued", "running", "succeeded", "failed" }

\* C3 as stated: the status a video call reports is one of queued, running,
\* succeeded, failed.
C3_Original ==
    (op \in VideoOps /\ ~ret.result.nil) =>
        ret.result.Status \in NormalizedStatuses

\* C3, amended: the Status a video call reports is the provider's status
\* string unchanged; only the Completed flag is derived from it, and it is
\* set exactly when the string is "completed" or "succeeded" or, on a status
\* query, a video_url came with it.
C3_StatusVerbatim ==
    (op \in VideoOps /\ ~ret.result.nil) =>
        /\ ret.result.Status = resp.body.status
        /\ ret.result.Completed <=>
              \/ resp.body.status \in { "completed", "succeeded" }
              \/ op = "GetTaskStatus" /\ resp.body.video_url # ""

\* a provider status outside the vocabulary reaches the caller as it is
C3_Witness ==
    /\ op = "GenerateVideo"
    /\ ~ret.result.nil
    /\ resp.body.status = "processing"
    /\ ret.result.Status = "processing"
    /\ ~ret.result.Completed

\* the answer with "completed" and "succeeded" exchanged
SwapSpelling(env) ==
    [ env EXCEPT !.body.status =
        IF @ = "completed" THEN "succeeded"
        ELSE IF @ = "succeeded" THEN "completed" ELSE @ ]

\* what the last video call would have returned to the answer env
Replayed(env) ==
    IF op = "GenerateVideo"
    THEN GenerateVideo(c, args.imageURL, args.prompt, args.opts, env)
    ELSE GetTaskStatus(c, args.taskID, env)

\* C4: on submit and on poll, a provider status "completed" and a provider
\* status "succeeded" are both reported completed, and exchanging the one
\* string for the other changes nothing in what the call returns but the
\* status string itself.
C4_BothSpellings ==
    (op \in VideoOps /\ resp.net = "ok"
        /\ resp.body.status \in { "completed", "succeeded" }) =>
        /\ ~ret.result.nil => ret.result.Completed
        /\ Replayed(SwapSpelling(resp)).err = ret.err
        /\ Replayed(SwapSpelling(resp)).result =
              IF ret.result.nil THEN ret.result
              ELSE [ ret.result EXCEPT !.Status = SwapSpelling(resp).body.status ]

\* a submit answered "completed"
C4_Witness ==
    /\ op = "GenerateVideo"
    /\ resp.body.status = "completed"
    /\ ~ret.result.nil
    /\ ret.result.Completed
    /\ ret.result.Status = "completed"

\* C5 as stated: a video call's result has a URL exactly when it is reported
\* completed.
C5_Original ==
    (op \in VideoOps /\ ~ret.result.nil) =>
        (ret.result.VideoURL # "" <=> ret.result.Completed)

\* C5, amended: a result that has a URL is reported completed, but not the
\* other way round: GetTaskStatus reports completed without a URL when the
\* status is "completed" or "succeeded" and no video_url came with it, and
\* GenerateVideo never fills in the URL.
C5_UrlImpliesCompleted ==
    (op \in VideoOps /\ ~ret.result.nil) =>
        /\ ret.result.VideoURL # "" => ret.result.Completed
        /\ op = "GenerateVideo" => ret.result.VideoURL = ""
        /\ (ret.result.Completed /\ ret.result.VideoURL = "") =>
              resp.body.status \in { "completed", "succeeded" }

\* a poll reported completed that has no URL
C5_Witness ==
    /\ op = "GetTaskStatus"
    /\ ~ret.result.nil
    /\ ret.result.Completed
    /\ ret.result.VideoURL = ""
    /\ resp.body.status = "succeeded"

\* C6 as stated: a status response with a non-empty error string gives a
\* result that is reported failed and not completed.
C6_Original ==
    (op = "GetTaskStatus" /\ ParsedVideoResponse /\ resp.body.error # "") =>
        /\ ~ret.result.nil
        /\ ret.result.Error # ""
        /\ ~ret.result.Completed

\* C6, amended: a status response with a non-empty error string gives a
\* result, not an error, whose Error field is that string; the result is
\* still reported completed when the status is "completed" or "succeeded" or
\* a video_url came with it, and only then.
C6_ErrorCarried ==
    (op = "GetTaskStatus" /\ ParsedVideoResponse /\ resp.body.error # "") =>
        /\ ret.err.nil
        /\ ~ret.result.nil
        /\ ret.result.Error = resp.body.error
        /\ ret.result.Completed <=>
              \/ resp.body.status \in { "completed", "succeeded" }
              \/ resp.body.video_url # ""

\* a poll that carries an error string and is reported completed
C6_Witness ==
    /\ op = "GetTaskStatus"
    /\ resp.body.error = "boom"
    /\ resp.body.status = "running"
    /\ resp.body.video_url # ""
    /\ ~ret.result.nil
    /\ ret.result.Error = "boom"
    /\ ret.result.Completed

\* a response arrived whose status code is not 2xx
Non2xx == resp.net = "ok" /\ ~(resp.code \in 200..299)

\* C7: a response with a status code outside 200..299 makes GenerateVideo,
\* GetTaskStatus and ChatCompletion return an error and no result.
C7_Non2xxIsError ==
    (op \in { "GenerateVideo", "GetTaskStatus", "ChatCompletion" } /\ Non2xx) =>
        /\ ret.result.nil
        /\ ~ret.err.nil

\* C8: the error GenerateVideo and the chat client return for a non-2xx
\* response names the status code and copies no more of the body than a
\* fixed number of bytes.
C8_StatusAndTruncatedBody ==
    (op \in { "GenerateVideo", "ChatCompletion" } /\ Non2xx) =>
        /\ ~ret.err.nil
        /\ ret.err.hasStatus
        /\ ret.err.status = resp.code
        /\ ret.err.bodyLen <= ErrorPreviewLimit

\* C9: a submit response with an accepted status code and a non-empty error
\* member makes GenerateVideo return an error (the provider's text) and no
\* result, whatever task_id and status the body has.
C9_SubmitErrorField ==
    (op = "GenerateVideo" /\ resp.net = "ok" /\ SubmitAccepted(resp.code)
        /\ UnmarshalsAsChatfire(resp.body) /\ resp.body.error # "") =>
        /\ ret.result.nil
        /\ ~ret.err.nil
        /\ ret.err.msg = "chatfire error"
        /\ ret.err.detail = resp.body.error

\* an accepted submit that names a task, says "succeeded" and has an error
C9_Witness ==
    /\ op = "GenerateVideo"
    /\ resp.net = "ok"
    /\ resp.code = StatusOK
    /\ resp.body.task_id = <<"t", "1">>
    /\ resp.body.status = "succeeded"
    /\ resp.body.error = "boom"
    /\ ret.result.nil
    /\ ~ret.err.nil

\* C10 as stated: a status query for a task id that follows a terminal
\* result for that id issues no HTTP request and returns the same result.
C10_Original ==
    [][ ( /\ op = "GetTaskStatus"
          /\ Terminal(ret.result)
          /\ op' = "GetTaskStatus"
          /\ args'.taskID = args.taskID )
        => (httpCalls' = 0 /\ ret' = ret) ]_vars

\* C10, amended: GetTaskStatus keeps nothing between calls: a status query
\* that follows a terminal result for the same task id issues one HTTP
\* request like any other, to the same URL, and returns what that response
\* says; not polling a terminal task again is left to the caller.
C10_RepollAsksProvider ==
    repoll =>
        /\ httpCalls = 1
        /\ req.method = "GET"
        /\ req.url = c.BaseURL \o QueryPath(c.QueryEndpoint, args.taskID)
        /\ ParsedVideoResponse =>
              /\ ~ret.result.nil
              /\ ret.result.Status = resp.body.status
              /\ ret.result.VideoURL = resp.body.video_url
        /\ ~ParsedVideoResponse => ret.result.nil /\ ~ret.err.nil

\* a task reported completed is queried again and now reported running
C10_Witness ==
    /\ repoll
    /\ httpCalls = 1
    /\ ~ret.result.nil
    /\ ret.result.Status = "queued"
    /\ ~ret.result.Completed

ClientOps == { "GenerateVideo", "GetTaskStatus", "ChatCompletion" }

\* C11: a call of GenerateVideo, GetTaskStatus or ChatCompletion calls
\* HTTPClient.Do at most once, and when that one call fails it returns the
\* send error and no result without calling it again.
C11_NoInternalRetry ==
    op \in ClientOps =>
        /\ httpCalls \in { 0, 1 }
        /\ resp.net = "senderr" =>
              /\ httpCalls = 1
              /\ ret.result.nil
              /\ ~ret.err.nil
              /\ ret.err.msg \in { "send request", "failed to send request" }

\* a status query whose request could not be sent
C11_Witness ==
    /\ op = "GetTaskStatus"
    /\ resp.net = "senderr"
    /\ httpCalls = 1
    /\ ret.result.nil
    /\ ret.err.msg = "send request"

\* the value the last option of opts that sets field gives it, or default
RECURSIVE LastValue(_, _, _)
LastValue(opts, field, default) ==
    IF opts = <<>> THEN default
    ELSE IF opts[Len(opts)].field = field THEN opts[Len(opts)].value
    ELSE LastValue(SubSeq(opts, 1, Len(opts) - 1), field, default)

\* C14: GenerateVideo submits duration 5, size "16:9" and the client's model
\* when no option is given; an option replaces its own field of the request
\* and no other; a model option replaces the client's model only when it is
\* not empty; the duration of the result is the duration submitted.
C14_DefaultsAndOverrides ==
    (op = "GenerateVideo" /\ req.method # "none") =>
        /\ req.body.Duration = LastValue(args.opts, "Duration", 5)
        /\ req.body.Size = LastValue(args.opts, "AspectRatio", "16:9")
        /\ req.body.Model =
              IF LastValue(args.opts, "Model", "") # ""
              THEN LastValue(args.opts, "Model", "") ELSE c.Model
        /\ req.body.Prompt = args.prompt
        /\ req.body.ImageURL = args.imageURL
        /\ args.opts = <<>> =>
              /\ req.body.Duration = 5
              /\ req.body.Size = "16:9"
              /\ req.body.Model = c.Model
        /\ ~ret.result.nil => ret.result.Duration = req.body.Duration

\* a call with a duration and an empty model option
C14_Witness ==
    /\ op = "GenerateVideo"
    /\ args.opts = << [ field |-> "Duration", value |-> 10 ],
                      [ field |-> "Model", value |-> "" ] >>
    /\ req.body.Duration = 10
    /\ req.body.Size = "16:9"
    /\ req.body.Model = DefaultModel
    /\ ~ret.result.nil
    /\ ret.result.Duration = 10

\* the chat round trip of the last call succeeded
ChatRoundTripOK ==
    /\ resp.net = "ok"
    /\ resp.code = 200
    /\ UnmarshalsAsChatCompletion(resp.body)

\* C16: GenerateText returns the content of the first choice of a successful
\* response; when the response has no choices it returns an error and the
\* empty text; when the round trip fails it returns ChatCompletion's error
\* as it is, and the empty text.
C16_FirstChoice ==
    op = "GenerateText" =>
        /\ (ChatRoundTripOK /\ Len(resp.body.choices) > 0) =>
              /\ ret.err.nil
              /\ ret.result.text = resp.body.choices[1]
        /\ (ChatRoundTripOK /\ Len(resp.body.choices) = 0) =>
              /\ ~ret.err.nil
              /\ ret.err.msg = "no response from API"
              /\ ret.result.text = ""
        /\ ~ChatRoundTripOK =>
              /\ ~ret.err.nil
              /\ ret.err = ChatCompletion(oc, UserHello, args.options, resp).err
              /\ ret.result.text = ""

\* a response with two choices
C16_Witness ==
    /\ op = "GenerateText"
    /\ ChatRoundTripOK
    /\ resp.body.choices = <<"first", "second">>
    /\ ret.err.nil
    /\ ret.result.text = "first"

\* C17: every HTTP request of GenerateVideo, GetTaskStatus and the chat
\* client has the Authorization header "Bearer " followed by the API key of
\* the client that sends it, and HTTPClient.Do is never called without such
\* a request.
C17_BearerOnEveryRequest ==
    /\ httpCalls > 0 => req.method # "none"
    /\ req.method # "none" =>
          req.auth = <<"Bearer ",
                       IF op \in VideoOps THEN c.APIKey ELSE oc.APIKey>>

\* a status query that was sent
C17_Witness ==
    /\ op = "GetTaskStatus"
    /\ httpCalls = 1
    /\ req.method = "GET"
    /\ req.auth = <<"Bearer ", "sk-key">>

\* C20: the message list GenerateText sends ends with the user prompt with
\* role "user"; it starts with a "system" message holding the system prompt
\* exactly when the system prompt is not empty; it holds no other message;
\* the options are applied to the request in the order given, the last
\* option for a field giving the field's value.
C20_PromptPairAndOptions ==
    (op = "GenerateText" /\ req.method # "none") =>
        LET messages == req.body.Messages
        IN  /\ Len(messages) = (IF args.systemPrompt # "" THEN 2 ELSE 1)
            /\ messages[Len(messages)] = ChatMessage("user", args.prompt)
            /\ args.systemPrompt # "" =>
                  messages[1] = ChatMessage("system", args.systemPrompt)
            /\ req.body.Model = oc.Model
            /\ req.body.MaxTokens = LastValue(args.options, "MaxTokens", 0)
            /\ req.body.TopP = LastValue(args.options, "TopP", Float(0))
            /\ req.body.Temperature =
                  LastValue(args.options, "Temperature", Float(0))

\* a system prompt and two options for the same field
C20_Witness ==
    /\ op = "GenerateText"
    /\ req.method # "none"
    /\ args.systemPrompt = "be brief"
    /\ args.options = <<WithMaxTokens(10), WithMaxTokens(2000)>>
    /\ Len(req.body.Messages) = 2
    /\ req.body.MaxTokens = 2000

\* the template holds both spellings of the placeholder
HoldsBothSpellings(template) ==
    /\ Contains(template, TaskIdPlaceholder)
    /\ Contains(template, TaskUnderscoreIdPlaceholder)

\* C19 as stated: the URL GetTaskStatus requests holds neither {taskId} nor
\* {task_id}, whatever the query template.
C19_Original ==
    (op = "GetTaskStatus" /\ req.method # "none") =>
        /\ ~Contains(req.url, TaskIdPlaceholder)
        /\ ~Contains(req.url, TaskUnderscoreIdPlaceholder)

\* C19: the URL GetTaskStatus requests never holds {taskId}; it holds
\* {task_id} exactly when the query template holds both spellings, of which
\* only {taskId} is substituted; the call leaves the client and its
\* QueryEndpoint as they were, and the path requested is the one resolved
\* from that template for the id of this call.
C19_ResolvedOncePerCall ==
    [][ (op' = "GetTaskStatus" /\ req'.method # "none") =>
            /\ c' = c
            /\ c'.QueryEndpoint = c.QueryEndpoint
            /\ ~Contains(req'.url, TaskIdPlaceholder)
            /\ Contains(req'.url, TaskUnderscoreIdPlaceholder)
                   <=> HoldsBothSpellings(c.QueryEndpoint)
            /\ req'.url = c.BaseURL
                          \o ResolvedPath(c.QueryEndpoint, args'.taskID) ]_vars

\* a template with both spellings was queried
C19_Witness ==
    /\ op = "GetTaskStatus"
    /\ req.method # "none"
    /\ HoldsBothSpellings(c.QueryEndpoint)
    /\ args.taskID = Abc123
    /\ Contains(req.url, TaskUnderscoreIdPlaceholder)
    /\ Contains(req.url, Abc123)

\* the providers the form offers for a text service that are not Gemini
NonGeminiTextProviders == { "openai", "chatfire" }

\* the form filled in for a client's base URL
Form(baseURL, provider, serviceType) ==
    [ base_url |-> baseURL, provider |-> provider,
      service_type |-> serviceType ]

\* C18: for a client constructed with no explicit endpoint, the full call
\* path the form shows for the client's base URL is the URL the client
\* requests: provider chatfire with service type video for GenerateVideo,
\* a non-Gemini provider with service type text for the chat client.
C18_FormShowsRequestedURL ==
    /\ ( /\ op = "GenerateVideo"
         /\ req.method # "none"
         /\ c.Endpoint = NewChatfireClient(c.BaseURL, c.APIKey, c.Model,
                                           <<>>, <<>>).Endpoint ) =>
          req.url = fullEndpointExample(Form(c.BaseURL, "chatfire", "video"))
    /\ ( /\ op \in { "ChatCompletion", "GenerateText" }
         /\ req.method # "none"
         /\ oc.Endpoint = NewOpenAIClient(oc.BaseURL, oc.APIKey, oc.Model,
                                          <<>>).Endpoint ) =>
          \A provider \in NonGeminiTextProviders :
              req.url = fullEndpointExample(Form(oc.BaseURL, provider, "text"))

T1 == <<"t", "1">>

\* the provider's answer of the step just taken
Answered(status, video_url) ==
    /\ resp'.net = "ok"
    /\ resp'.code = StatusOK
    /\ resp'.body = VideoBody(status, video_url, "")

\* the step is a poll of the task
PollStep ==
    /\ task.state \in NonTerminalStates
    /\ now < task.deadline
    /\ now' = now
    /\ op' = "GetTaskStatus"
    /\ httpCalls' = 1

\* C12: a submit answered with task_id t1 and status queued leaves a
\* non-terminal task with id t1; a poll answered running leaves the task
\* non-terminal in state running; a poll answered succeeded with a video_url
\* makes the task succeeded with that URL, as does the result GetTaskStatus
\* returns; a succeeded task never changes again and no call is made to the
\* provider for it.
C12_Lifecycle ==
    [][ /\ ( /\ task.state = "none"
             /\ op' = "GenerateVideo"
             /\ Answered("queued", "") ) =>
              /\ ret'.err.nil
              /\ ret'.result.TaskID = T1
              /\ ~ret'.result.Completed
              /\ task'.state = "queued"
              /\ task'.id = T1
        /\ (PollStep /\ Answered("running", "")) =>
              /\ ret'.err.nil
              /\ ret'.result.Status = "running"
              /\ ~ret'.result.Completed
              /\ task'.state = "running"
              /\ task'.id = task.id
        /\ (PollStep /\ Answered("succeeded", VideoURL)) =>
              /\ ret'.err.nil
              /\ ret'.result.Completed
              /\ ret'.result.VideoURL = VideoURL
              /\ task'.state = "succeeded"
              /\ task'.result = VideoURL
              /\ task'.id = task.id
        /\ task.state = "succeeded" =>
              /\ task' = task
              /\ UNCHANGED <<op, args, req, resp, ret, httpCalls>> ]_vars

\* the task t1 succeeded on a poll
C12_Witness ==
    /\ task.state = "succeeded"
    /\ task.id = T1
    /\ task.result = VideoURL
    /\ op = "GetTaskStatus"
    /\ resp.body = VideoBody("succeeded", VideoURL, "")
    /\ ret.result.VideoURL = VideoURL
    /\ now > 0

\* C13: a task becomes timed_out only from a non-terminal state and only
\* at or after its deadline; a terminal task never changes again, so the
\* transition happens once; a timed-out task is not failed and its failure
\* kind is TimedOut, not ProviderError; a task still non-terminal at its
\* deadline does become timed_out.
C13_TimedOutOnceAtDeadline ==
    /\ [][ /\ (task'.state = "timed_out" /\ task.state # "timed_out") =>
                 /\ task.state \in NonTerminalStates
                 /\ now >= task.deadline
           /\ task.state \in TerminalStates => task' = task ]_vars
    /\ [](task.state = "timed_out" =>
             /\ now >= task.deadline
             /\ task.failure = "TimedOut")
    /\ [](task.state = "failed" => task.failure = "ProviderError")
    /\ (task.state \in NonTerminalStates /\ now >= task.deadline)
           ~> (task.state = "timed_out")

\* the task timed out after a poll that said running
C13_Witness ==
    /\ task.state = "timed_out"
    /\ task.failure = "TimedOut"
    /\ op = "GetTaskStatus"
    /\ ~ret.result.nil
    /\ ret.result.Status = "running"
    /\ now >= task.deadline

\* the request that call builds on the clients as they were constructed
RequestOf(call) ==
    Run(SharedChatfireClient, SharedOpenAIClient, call, VideoCoreEnv).req

\* the value the options set for field, if they set it
Supplies(opts, field, value) ==
    \E i \in 1..Len(opts) : opts[i] = [ field |-> field, value |-> value ]

\* C15: under every interleaving of concurrent GenerateVideo, GetTaskStatus,
\* ChatCompletion and GenerateText calls on one pair of clients, no step
\* changes a field of either client; the request of every call in flight is
\* the one built from the clients as constructed and the call's own
\* arguments; a request carries a model override or a max_tokens value only
\* if its own call supplied it; the request a method returns with is the
\* one it built.
C15_ConfigReadOnly ==
    /\ [][ /\ c' = c
           /\ oc' = oc
           /\ \A k \in Callers :
                (inflight[k] # NoCall /\ inflight'[k] = NoCall) =>
                    req' = inflight[k].req ]_vars
    /\ [](\A k \in Callers :
            inflight[k] # NoCall =>
              LET call == [ name |-> inflight[k].name,
                            args |-> inflight[k].args ]
                  r == inflight[k].req
              IN  /\ r = RequestOf(call)
                  /\ r.method # "none"
                  /\ call.name = "GenerateVideo" =>
                        /\ r.body.Model = "other-model"
                              => Supplies(call.args.opts, "Model", "other-model")
                        /\ ~Supplies(call.args.opts, "Model", "other-model")
                              => r.body.Model = DefaultModel
                  /\ call.name \in { "ChatCompletion", "GenerateText" } =>
                        \A n \in { 10, 2000 } :
                            r.body.MaxTokens = n
                               => Supplies(call.args.options, "MaxTokens", n))

\* two submissions in flight at once, one of them with a model override
C15_Witness ==
    /\ inflight[1] # NoCall
    /\ inflight[2] # NoCall
    /\ inflight[1].name = "GenerateVideo"
    /\ inflight[2].name = "GenerateVideo"
    /\ inflight[1].args.opts # <<>>
    /\ inflight[2].args.opts = <<>>
    /\ inflight[1].req.body.Model = "other-model"
    /\ inflight[2].req.body.Model = DefaultModel
    /\ op = "ChatCompletion"

\* the operations that return a pointer and an error
PointerOps == { "GenerateVideo", "GetTaskStatus", "ChatCompletion" }

\* C21: GenerateVideo, GetTaskStatus and ChatCompletion return either a
\* result and no error or no result and an error, on every path: never
\* both and never neither; when no request was sent it is the error.
C21_ResultXorError ==
    op \in PointerOps =>
        /\ ret.result.nil # ret.err.nil
        /\ httpCalls = 0 => ret.result.nil
        /\ resp.net \in { "senderr", "readerr" } => ret.result.nil

\* a submit answered 200 with a provider error field
C21_Witness ==
    /\ op = "GenerateVideo"
    /\ resp.net = "ok"
    /\ resp.code = StatusOK
    /\ resp.body.json = "video"
    /\ resp.body.error = "boom"
    /\ ret.result.nil
    /\ ~ret.err.nil
    /\ ret.err.msg = "chatfire error"

\* the response of the last call is well formed for the operation and has
\* no error member
WellFormedNoError ==
    /\ resp.net = "ok"
    /\ IF op \in VideoOps
       THEN resp.body.json = "video" /\ resp.body.error = ""
       ELSE resp.body.json = "chat"

\* C22: GenerateVideo, GetTaskStatus and ChatCompletion return a result and
\* no error for every response with a status code in 200-299, a well-formed
\* body and no error field.
C22_Every2xxIsSuccess ==
    ( /\ op \in PointerOps
      /\ WellFormedNoError
      /\ resp.code \in 200..299 ) =>
        /\ ret.err.nil
        /\ ~ret.result.nil

====
